---- MODULE Spec2Model ----
(***************************************************************************)
(* Model of telegram-images-bot (src/src/main.rs).                         *)
(*                                                                         *)
(* The program keeps one map ChatId -> UserState behind a single           *)
(* tokio::sync::Mutex.  The dispatcher runs the handlers of one chat one   *)
(* after the other and the handlers of different chats concurrently;       *)
(* /stopcollect spawns a detached task (stop_collecting_and_process) that  *)
(* races with every handler for the mutex.  A step of the model is the     *)
(* code between two .await points of one task.  The critical section of    *)
(* process_inner is modelled in two steps (flag flip, then take) so that   *)
(* the mutex, not the step granularity, is what makes it atomic.           *)
(*                                                                         *)
(* An awaited I/O call (a send, a lookup, a fetch, a file operation) ends  *)
(* Ok or Err; a run has at most MaxFaults Errs.  The wall clock is read in *)
(* one place (the zip file name), so it advances at that reading.          *)
(*                                                                         *)
(* Not modelled: /start, /help and /version (one send, no state), logging, *)
(* and the order of the entries inside the zip (read_dir order).           *)
(***************************************************************************)
EXTENDS Integers, Sequences, FiniteSets, TLC

VARIABLES
    state,      \* AppState: the HashMap<ChatId, UserState>
    lock,       \* holder of the tokio Mutex around the map: <<>> or <<task>>
    handler,    \* per chat: where the dispatcher's handler of that chat is
    pipes,      \* the spawned stop_collecting_and_process tasks, in spawn order
    dirs,       \* file system: existing temp_<chat>_<uuid> directories
    zips,       \* file system: existing zip files, by file name
    nextId,     \* message id of the next update
    now,        \* minute of the last chrono::Local::now() (format "%Y-%m-%d:%H:%M")
    appended,   \* history: per chat, the messages pushed since the last /startcollect
    cleared,    \* history: ids of the messages dropped by messages.clear()
    ignored,    \* history: ids of the messages that arrived while not collecting
    faults      \* I/O calls that have failed so far

vars == <<state, lock, handler, pipes, dirs, zips, nextId, now,
          appended, cleared, ignored, faults>>

-----------------------------------------------------------------------------
(* Bounds *)

\* updates (commands and other messages) the dispatcher receives over the whole run
MaxUpdates == 4
\* I/O calls (sends, lookups, fetches, file operations) that can fail over the whole run
MaxFaults == 1

Chats == {1, 2}

\* the minutes the wall clock can show
Minutes == {0, 1}

\* photo variants of one message, and the widths and heights a variant can have
MaxVariants == 3
Sizes == {1, 2}

-----------------------------------------------------------------------------
(* Values *)

\* Option<T>: <<>> is None, <<x>> is Some(x)
None == <<>>
Some(x) == <<x>>
IsNone(o) == o = <<>>
Unwrap(o) == o[1]

\* the PhotoSize variants of the photo message with this id: width, height, file id.
\* The first two tie for the largest width * height.
PhotoSizes(id) ==
    << [width |-> 2, height |-> 1, file |-> <<id, 1>>],
       [width |-> 1, height |-> 2, file |-> <<id, 2>>],
       [width |-> 1, height |-> 1, file |-> <<id, 3>>] >>

\* What an inbound message can be: a text, a text of blanks, a photo without text
Contents == {"text", "blank", "photo"}

Message(id, content) ==
    [id |-> id,
     text |-> CASE content = "text" -> Some("n")
                [] content = "blank" -> Some(" ")
                [] OTHER -> None,
     photo |-> IF content = "photo" THEN Some(PhotoSizes(id)) ELSE None]

\* #[derive(Default)] UserState
UserState ==
    [is_collecting |-> FALSE, is_set_file_name |-> FALSE,
     messages |-> <<>>, file_name |-> None]

\* the session of chat c as the next entry(c).or_default() would see it
Sess(c) == IF c \in DOMAIN state THEN state[c] ELSE UserState

\* state_guard.entry(chat_id).or_default(), then the entry set to s
Entry(c, s) == [k \in (DOMAIN state) \cup {c} |-> IF k = c THEN s ELSE state[k]]

\* tasks: the dispatcher's handler of chat c, and the i-th spawned stop task
HandlerTask(c) == <<"handler", c>>
PipeTask(i) == <<"pipe", i>>

Ids(msgs) == { msgs[i].id : i \in 1..Len(msgs) }

-----------------------------------------------------------------------------
(* Pieces of the handlers' code *)

\* an awaited I/O call returns Ok or Err; the Errs of a run are counted
Outcome(ok) ==
    IF ok THEN faults' = faults
    ELSE faults < MaxFaults /\ faults' = faults + 1

\* Chat ids are opaque and the handlers treat every chat alike: the chat of the
\* first update of a run is called 1.
Dispatch(c) == handler[c] = "idle" /\ nextId <= MaxUpdates /\ (nextId = 1 => c = 1)

\* a lock that excludes nobody
CanLockUnguarded == TRUE

\* state.lock().await returns once no other task holds the guard
CanLock == lock = None

\* a test of the flag that is always true
AlwaysCollecting(s) == TRUE

\* a test that gives way to a pending file-name request
CollectingUnlessNaming(s) == s.is_collecting /\ ~s.is_set_file_name

\* if user_state.is_collecting
IsCollecting(s) == s.is_collecting

\* a push at the front
PushFront(msgs, m) == <<m>> \o msgs

\* user_state.messages.push(msg.clone())
Push(msgs, m) == Append(msgs, m)

\* msg.text().unwrap_or_default().to_string()
TextOf(m) == IF IsNone(m.text) THEN "" ELSE Unwrap(m.text)

\* file_name.is_empty()
IsEmpty(str) == str = ""

\* a restart that keeps the buffer
RestartKeeping(s) == [s EXCEPT !.is_collecting = TRUE]

\* start_collecting: is_collecting = true; messages.clear()
Restart(s) == [s EXCEPT !.is_collecting = TRUE, !.messages = <<>>]

\* a file-name request that also leaves collecting mode
RequestNameExclusive(s) == [s EXCEPT !.is_set_file_name = TRUE, !.is_collecting = FALSE]

\* start_set_file_name: is_set_file_name = true
RequestName(s) == [s EXCEPT !.is_set_file_name = TRUE]

\* process_inner: user_state.is_collecting = false
Stopped(s) == [s EXCEPT !.is_collecting = FALSE]

\* a take that leaves the file name for the next Stop
TakenKeepingName(s) == [s EXCEPT !.messages = <<>>]

\* a clone of the buffer in place of mem::take
TakenLeavingCopy(s) == [s EXCEPT !.file_name = None]

\* process_inner: std::mem::take(&mut messages) and file_name.take() leave these behind
Taken(s) == [s EXCEPT !.messages = <<>>, !.file_name = None]

-----------------------------------------------------------------------------
(* State after construction: main() *)

Init ==
    /\ state = <<>>
    /\ lock = None
    /\ handler = [c \in Chats |-> "idle"]
    /\ pipes = <<>>
    /\ dirs = <<>>
    /\ zips = <<>>
    /\ nextId = 1
    /\ now = 0
    /\ appended = [c \in Chats |-> <<>>]
    /\ cleared = {}
    /\ ignored = {}
    /\ faults = 0

-----------------------------------------------------------------------------
(* handle_message: the endpoint of every update that is not a command *)

handle_message(c, content) ==
    /\ Dispatch(c)
    /\ CanLock
    /\ LET msg == Message(nextId, content)
           s == Sess(c)
           file_name == TextOf(msg)
       IN  /\ nextId' = nextId + 1
           /\ IF IsCollecting(s)
                THEN /\ state' = Entry(c, [s EXCEPT !.messages = Push(@, msg)])
                     /\ appended' = [appended EXCEPT ![c] = Append(@, msg.id)]
                     /\ lock' = None
                     /\ UNCHANGED <<handler, ignored>>
                ELSE /\ ignored' = ignored \cup {msg.id}
                     /\ UNCHANGED appended
                     /\ IF s.is_set_file_name
                          THEN IF IsEmpty(file_name)
                                 THEN /\ state' = Entry(c, s)
                                      /\ lock' = Some(HandlerTask(c))
                                      /\ handler' = [handler EXCEPT ![c] = "hm_reject_send"]
                                 ELSE /\ state' = Entry(c, [s EXCEPT !.file_name = Some(file_name)])
                                      /\ lock' = Some(HandlerTask(c))
                                      /\ handler' = [handler EXCEPT ![c] = "hm_ack_send"]
                          ELSE /\ state' = Entry(c, s)
                               /\ lock' = None
                               /\ UNCHANGED handler
    /\ UNCHANGED <<pipes, dirs, zips, now, cleared, faults>>

\* bot.send_message("file name must not be empty").await?; return Ok(())
hm_reject_send(c) ==
    /\ handler[c] = "hm_reject_send"
    /\ handler' = [handler EXCEPT ![c] = "idle"]
    /\ lock' = None
    /\ UNCHANGED <<state, pipes, dirs, zips, nextId, now, appended, cleared, ignored, faults>>

\* bot.send_message("file name set").await?; is_set_file_name = false
hm_ack_send(c, ok) ==
    /\ handler[c] = "hm_ack_send"
    /\ handler' = [handler EXCEPT ![c] = "idle"]
    /\ lock' = None
    /\ state' = IF ok THEN Entry(c, [Sess(c) EXCEPT !.is_set_file_name = FALSE]) ELSE state
    /\ UNCHANGED <<pipes, dirs, zips, nextId, now, appended, cleared, ignored>>
    /\ Outcome(ok)

-----------------------------------------------------------------------------
(* command_handler and the functions it calls *)

\* Command::StartCollect: start_collecting up to its send
start_collecting(c) ==
    /\ Dispatch(c)
    /\ nextId' = nextId + 1
    /\ CanLock
    /\ state' = Entry(c, Restart(Sess(c)))
    /\ cleared' = cleared \cup Ids(Sess(c).messages)
    /\ appended' = [appended EXCEPT ![c] = <<>>]
    /\ lock' = Some(HandlerTask(c))
    /\ handler' = [handler EXCEPT ![c] = "sc_send"]
    /\ UNCHANGED <<pipes, dirs, zips, now, ignored, faults>>

\* start_collecting: bot.send_message("collecting started").await?, guard dropped
sc_send(c) ==
    /\ handler[c] = "sc_send"
    /\ handler' = [handler EXCEPT ![c] = "idle"]
    /\ lock' = None
    /\ UNCHANGED <<state, pipes, dirs, zips, nextId, now, appended, cleared, ignored, faults>>

\* Command::FileName: start_set_file_name sends its prompt before it locks
start_set_file_name(c) ==
    /\ Dispatch(c)
    /\ nextId' = nextId + 1
    /\ handler' = [handler EXCEPT ![c] = "fn_send"]
    /\ UNCHANGED <<state, lock, pipes, dirs, zips, now, appended, cleared, ignored, faults>>

\* start_set_file_name: the prompt's send returns; on Err the handler returns
fn_send(c, ok) ==
    /\ handler[c] = "fn_send"
    /\ handler' = [handler EXCEPT ![c] = IF ok THEN "fn_lock" ELSE "idle"]
    /\ UNCHANGED <<state, lock, pipes, dirs, zips, nextId, now, appended, cleared, ignored>>
    /\ Outcome(ok)

\* start_set_file_name: lock, is_set_file_name = true, unlock
fn_lock(c) ==
    /\ handler[c] = "fn_lock"
    /\ CanLock
    /\ state' = Entry(c, RequestName(Sess(c)))
    /\ lock' = None
    /\ handler' = [handler EXCEPT ![c] = "idle"]
    /\ UNCHANGED <<pipes, dirs, zips, nextId, now, appended, cleared, ignored, faults>>

\* The task tokio::spawn creates for one /stopcollect.  Its locals are messages
\* (messages_to_process), file_name, photo_urls, zip (zip_filename) and idx (the
\* position of the loop over the batch); fetch holds the state of the spawned
\* downloads, out what it has sent to the chat, doc the document it sent, result
\* and error what process_inner returned.  began, found and seen are history:
\* the next message id, is_collecting and the pushes since the last /startcollect
\* as they were when the task got the lock.
NewPipe(c) ==
    [chat |-> c, pc |-> "lock",
     began |-> 0, found |-> "unknown", seen |-> <<>>,
     messages |-> <<>>, file_name |-> None,
     idx |-> 1, photo_urls |-> <<>>, zip |-> None, fetch |-> <<>>,
     out |-> <<>>, doc |-> None, result |-> "none", error |-> "none"]

\* Command::StopCollect: tokio::spawn(stop_collecting_and_process(..)), return at once
stop_collect(c) ==
    /\ Dispatch(c)
    /\ nextId' = nextId + 1
    /\ pipes' = Append(pipes, NewPipe(c))
    /\ UNCHANGED <<state, lock, handler, dirs, zips, now, appended, cleared, ignored, faults>>

-----------------------------------------------------------------------------
(* process_inner, run by the spawned task i *)

SetPipe(i, r) == pipes' = [pipes EXCEPT ![i] = r]

\* process_inner returns Ok(()): stop_collecting_and_process ends
ReturnOk(p) == [p EXCEPT !.result = "ok", !.pc = "done"]

\* an Err that nobody reports
ReturnErrSilent(p, e) == [p EXCEPT !.result = "err", !.error = e, !.pc = "done"]

\* process_inner returns Err(e): stop_collecting_and_process reports it
ReturnErr(p, e) == [p EXCEPT !.result = "err", !.error = e, !.pc = "fail_send"]

\* a send_message that returned Ok is on the conversation's record
Sent(p, kind) == [p EXCEPT !.out = Append(@, kind)]

\* a maximum that keeps the first of the maximal elements
MaxByKeyFirst(photos) ==
    CHOOSE k \in 1..Len(photos) :
        \A j \in 1..Len(photos) :
            LET kj == photos[j].height * photos[j].width
                kk == photos[k].height * photos[k].width
            IN  IF j < k THEN kj < kk ELSE kj <= kk

\* photos.iter().max_by_key(|p| p.height * p.width): the last of the maximal elements
MaxByKey(photos) ==
    CHOOSE k \in 1..Len(photos) :
        \A j \in 1..Len(photos) :
            LET kj == photos[j].height * photos[j].width
                kk == photos[k].height * photos[k].width
            IN  IF j > k THEN kj < kk ELSE kj <= kk

\* msg.photo() is Some and max_by_key is Some
HasPhoto(m) == ~IsNone(m.photo) /\ Len(Unwrap(m.photo)) > 0

\* the zip_filename of a run
ZipFilename(p, minute) ==
    IF IsNone(p.file_name)
        THEN [base |-> "images", stamp |-> Some(<<minute, p.chat>>)]
        ELSE [base |-> Unwrap(p.file_name), stamp |-> None]

\* lock; if !is_collecting send the notice under the lock, else is_collecting = false
pi_lock(i) ==
    /\ i \in 1..Len(pipes)
    /\ pipes[i].pc = "lock"
    /\ CanLock
    /\ LET c == pipes[i].chat
           s == Sess(c)
       IN  /\ lock' = Some(PipeTask(i))
           /\ IF ~IsCollecting(s)
                THEN /\ state' = Entry(c, s)
                     /\ SetPipe(i, [pipes[i] EXCEPT !.pc = "notcollecting_send",
                                                    !.began = nextId,
                                                    !.found = IF s.is_collecting THEN "yes" ELSE "no"])
                ELSE /\ state' = Entry(c, Stopped(s))
                     /\ SetPipe(i, [pipes[i] EXCEPT !.pc = "take", !.began = nextId,
                                                    !.found = IF s.is_collecting THEN "yes" ELSE "no",
                                                    !.seen = appended[c]])
    /\ UNCHANGED <<handler, dirs, zips, nextId, now, appended, cleared, ignored, faults>>

\* a block whose guard outlives it
TakeGuardKept(i) == Some(PipeTask(i))

\* the lock once the block of the take ends: state_guard is dropped
TakeGuard(i) == None

\* mem::take(&mut messages), file_name.take(), guard dropped
pi_take(i) ==
    /\ i \in 1..Len(pipes)
    /\ pipes[i].pc = "take"
    /\ LET c == pipes[i].chat
           s == Sess(c)
       IN  /\ state' = Entry(c, Taken(s))
           /\ SetPipe(i, [pipes[i] EXCEPT
                  !.messages = s.messages, !.file_name = s.file_name,
                  !.pc = IF s.messages = <<>> THEN "empty_send" ELSE "processing_send"])
    /\ lock' = TakeGuard(i)
    /\ UNCHANGED <<handler, dirs, zips, nextId, now, appended, cleared, ignored, faults>>

\* send "you have not started collecting" while holding the guard; return
pi_notcollecting_send(i, ok) ==
    /\ i \in 1..Len(pipes)
    /\ pipes[i].pc = "notcollecting_send"
    /\ SetPipe(i, IF ok THEN ReturnOk(Sent(pipes[i], "notcollecting")) ELSE ReturnErr(pipes[i], "send"))
    /\ lock' = None
    /\ UNCHANGED <<state, handler, dirs, zips, nextId, now, appended, cleared, ignored>>
    /\ Outcome(ok)

\* messages_to_process.is_empty(): send "nothing to process"; return
pi_empty_send(i, ok) ==
    /\ i \in 1..Len(pipes)
    /\ pipes[i].pc = "empty_send"
    /\ SetPipe(i, IF ok THEN ReturnOk(Sent(pipes[i], "empty")) ELSE ReturnErr(pipes[i], "send"))
    /\ UNCHANGED <<state, lock, handler, dirs, zips, nextId, now, appended, cleared, ignored>>
    /\ Outcome(ok)

\* send "processing, please wait"
pi_processing_send(i, ok) ==
    /\ i \in 1..Len(pipes)
    /\ pipes[i].pc = "processing_send"
    /\ SetPipe(i, IF ok THEN [Sent(pipes[i], "processing") EXCEPT !.pc = "resolve"]
                        ELSE ReturnErr(pipes[i], "send"))
    /\ UNCHANGED <<state, lock, handler, dirs, zips, nextId, now, appended, cleared, ignored>>
    /\ Outcome(ok)

\* a run that stages whatever the loop found
AfterResolveAlwaysStage(p) ==
    IF p.idx <= Len(p.messages) THEN p ELSE [p EXCEPT !.pc = "stage"]

\* where the run goes once the loop over the batch is over
AfterResolve(p) ==
    IF p.idx <= Len(p.messages) THEN p
    ELSE [p EXCEPT !.pc = IF p.photo_urls = <<>> THEN "nophoto_send" ELSE "stage"]

\* one turn of `for msg in &messages_to_process`: bot.get_file(largest).await?
pi_resolve(i, ok) ==
    /\ i \in 1..Len(pipes)
    /\ pipes[i].pc = "resolve"
    /\ LET p == pipes[i]
           m == p.messages[p.idx]
       IN  IF HasPhoto(m)
             THEN LET photos == Unwrap(m.photo)
                      largest_photo == photos[MaxByKey(photos)]
                  IN  SetPipe(i, IF ok
                        THEN AfterResolve([p EXCEPT !.photo_urls = Append(@, largest_photo.file),
                                                    !.idx = @ + 1])
                        ELSE ReturnErr(p, "get_file"))
             ELSE /\ ok
                  /\ SetPipe(i, AfterResolve([p EXCEPT !.idx = @ + 1]))
    /\ UNCHANGED <<state, lock, handler, dirs, zips, nextId, now, appended, cleared, ignored>>
    /\ Outcome(ok)

\* photo_urls.is_empty(): send "no photo found"; return
pi_nophoto_send(i, ok) ==
    /\ i \in 1..Len(pipes)
    /\ pipes[i].pc = "nophoto_send"
    /\ SetPipe(i, IF ok THEN ReturnOk(Sent(pipes[i], "nophoto")) ELSE ReturnErr(pipes[i], "send"))
    /\ UNCHANGED <<state, lock, handler, dirs, zips, nextId, now, appended, cleared, ignored>>
    /\ Outcome(ok)

\* temp_dir and zip_filename, create_dir_all(&temp_dir).await?, one spawn per url.
\* The clock is read here only: minute is what it shows now, not before the last reading.
pi_stage(i, minute, ok) ==
    /\ i \in 1..Len(pipes)
    /\ pipes[i].pc = "stage"
    /\ minute >= now
    /\ now' = minute
    /\ LET p == pipes[i]
       IN  IF ok
             THEN /\ dirs' = (i :> <<>>) @@ dirs
                  /\ SetPipe(i, [p EXCEPT !.zip = Some(ZipFilename(p, minute)),
                                          !.fetch = [j \in 1..Len(p.photo_urls) |-> "pending"],
                                          !.pc = "fetch"])
             ELSE /\ SetPipe(i, ReturnErr([p EXCEPT !.zip = Some(ZipFilename(p, minute))], "create_dir"))
                  /\ UNCHANGED dirs
    /\ UNCHANGED <<state, lock, handler, zips, nextId, appended, cleared, ignored>>
    /\ Outcome(ok)

\* a file index that counts the downloads as they finish
ImageIndexByArrival(i, j) == Cardinality(DOMAIN dirs[i]) + 1

\* format!("image_{}.jpg", i + 1): the index of the j-th url of run i in the enumeration
ImageIndex(i, j) == j

\* the j-th spawned download: get, bytes, write image_<j>.jpg, each unwrap()ed
pi_fetch(i, j, ok) ==
    /\ i \in 1..Len(pipes)
    /\ pipes[i].pc = "fetch"
    /\ j \in 1..Len(pipes[i].fetch)
    /\ pipes[i].fetch[j] = "pending"
    /\ IF ok
         THEN /\ dirs' = [dirs EXCEPT ![i] = (ImageIndex(i, j) :> pipes[i].photo_urls[j]) @@ @]
              /\ SetPipe(i, [pipes[i] EXCEPT !.fetch[j] = "ok"])
         ELSE /\ SetPipe(i, [pipes[i] EXCEPT !.fetch[j] = "panic"])
              /\ UNCHANGED dirs
    /\ UNCHANGED <<state, lock, handler, zips, nextId, now, appended, cleared, ignored>>
    /\ Outcome(ok)

\* join_all(downloads).await, its results dropped; then create_zip(&temp_dir, &zip_path)?
create_zip(i, outcome) ==
    /\ i \in 1..Len(pipes)
    /\ pipes[i].pc = "fetch"
    /\ \A j \in 1..Len(pipes[i].fetch) : pipes[i].fetch[j] # "pending"
    /\ LET p == pipes[i]
           name == Unwrap(p.zip)
       IN  CASE outcome = "ok" ->
                  /\ zips' = (name :> [entries |-> dirs[i], finished |-> TRUE]) @@ zips
                  /\ SetPipe(i, [p EXCEPT !.pc = "ack_send"])
             [] outcome = "create_err" ->
                  /\ UNCHANGED zips
                  /\ SetPipe(i, ReturnErr(p, "zip"))
             [] outcome = "write_err" ->
                  /\ zips' = (name :> [entries |-> <<>>, finished |-> FALSE]) @@ zips
                  /\ SetPipe(i, ReturnErr(p, "zip"))
    /\ Outcome(outcome = "ok")
    /\ UNCHANGED <<state, lock, handler, dirs, nextId, now, appended, cleared, ignored>>

\* send "done, N photos downloaded, sending the archive"
pi_ack_send(i, ok) ==
    /\ i \in 1..Len(pipes)
    /\ pipes[i].pc = "ack_send"
    /\ SetPipe(i, IF ok THEN [Sent(pipes[i], "ack") EXCEPT !.pc = "doc_send"]
                        ELSE ReturnErr(pipes[i], "send"))
    /\ UNCHANGED <<state, lock, handler, dirs, zips, nextId, now, appended, cleared, ignored>>
    /\ Outcome(ok)

\* bot.send_document(chat_id, InputFile::file(&zip_path)).await?
pi_doc_send(i, ok) ==
    /\ i \in 1..Len(pipes)
    /\ pipes[i].pc = "doc_send"
    /\ LET p == pipes[i]
           name == Unwrap(p.zip)
       IN  IF ok
             THEN /\ name \in DOMAIN zips
                  /\ SetPipe(i, [Sent(p, "document") EXCEPT !.doc = Some(zips[name]),
                                                            !.pc = "remove_dir"])
                  /\ UNCHANGED faults
             ELSE /\ SetPipe(i, ReturnErr(p, "send_document"))
                  /\ IF name \in DOMAIN zips THEN Outcome(FALSE) ELSE UNCHANGED faults
    /\ UNCHANGED <<state, lock, handler, dirs, zips, nextId, now, appended, cleared, ignored>>

\* tokio::fs::remove_dir_all(&temp_dir).await?
pi_remove_dir(i, ok) ==
    /\ i \in 1..Len(pipes)
    /\ pipes[i].pc = "remove_dir"
    /\ IF ok
         THEN /\ dirs' = [k \in (DOMAIN dirs) \ {i} |-> dirs[k]]
              /\ SetPipe(i, [pipes[i] EXCEPT !.pc = "remove_file"])
         ELSE /\ SetPipe(i, ReturnErr(pipes[i], "remove_dir"))
              /\ UNCHANGED dirs
    /\ UNCHANGED <<state, lock, handler, zips, nextId, now, appended, cleared, ignored>>
    /\ Outcome(ok)

\* tokio::fs::remove_file(&zip_path).await?
pi_remove_file(i, ok) ==
    /\ i \in 1..Len(pipes)
    /\ pipes[i].pc = "remove_file"
    /\ LET name == Unwrap(pipes[i].zip)
       IN  IF ok
             THEN /\ name \in DOMAIN zips
                  /\ zips' = [k \in (DOMAIN zips) \ {name} |-> zips[k]]
                  /\ SetPipe(i, ReturnOk(pipes[i]))
                  /\ UNCHANGED faults
             ELSE /\ SetPipe(i, ReturnErr(pipes[i], "remove_file"))
                  /\ UNCHANGED zips
                  /\ IF name \in DOMAIN zips THEN Outcome(FALSE) ELSE UNCHANGED faults
    /\ UNCHANGED <<state, lock, handler, dirs, nextId, now, appended, cleared, ignored>>

\* stop_collecting_and_process: let _ = bot.send_message("processing failed: e").await
pi_fail_send(i, ok) ==
    /\ i \in 1..Len(pipes)
    /\ pipes[i].pc = "fail_send"
    /\ SetPipe(i, [(IF ok THEN Sent(pipes[i], "failed") ELSE pipes[i]) EXCEPT !.pc = "done"])
    /\ UNCHANGED <<state, lock, handler, dirs, zips, nextId, now, appended, cleared, ignored>>
    /\ Outcome(ok)

-----------------------------------------------------------------------------

Next ==
    \/ \E c \in Chats, content \in Contents : handle_message(c, content)
    \/ \E c \in Chats : hm_reject_send(c)
    \/ \E c \in Chats, ok \in BOOLEAN : hm_ack_send(c, ok)
    \/ \E c \in Chats : start_collecting(c)
    \/ \E c \in Chats : sc_send(c)
    \/ \E c \in Chats : start_set_file_name(c)
    \/ \E c \in Chats, ok \in BOOLEAN : fn_send(c, ok)
    \/ \E c \in Chats : fn_lock(c)
    \/ \E c \in Chats : stop_collect(c)
    \/ \E i \in DOMAIN pipes : pi_lock(i)
    \/ \E i \in DOMAIN pipes : pi_take(i)
    \/ \E i \in DOMAIN pipes, ok \in BOOLEAN : pi_notcollecting_send(i, ok)
    \/ \E i \in DOMAIN pipes, ok \in BOOLEAN : pi_empty_send(i, ok)
    \/ \E i \in DOMAIN pipes, ok \in BOOLEAN : pi_processing_send(i, ok)
    \/ \E i \in DOMAIN pipes, ok \in BOOLEAN : pi_resolve(i, ok)
    \/ \E i \in DOMAIN pipes, ok \in BOOLEAN : pi_nophoto_send(i, ok)
    \/ \E i \in DOMAIN pipes, minute \in Minutes, ok \in BOOLEAN : pi_stage(i, minute, ok)
    \/ \E i \in DOMAIN pipes, j \in 1..MaxUpdates, ok \in BOOLEAN : pi_fetch(i, j, ok)
    \/ \E i \in DOMAIN pipes, outcome \in {"ok", "create_err", "write_err"} : create_zip(i, outcome)
    \/ \E i \in DOMAIN pipes, ok \in BOOLEAN : pi_ack_send(i, ok)
    \/ \E i \in DOMAIN pipes, ok \in BOOLEAN : pi_doc_send(i, ok)
    \/ \E i \in DOMAIN pipes, ok \in BOOLEAN : pi_remove_dir(i, ok)
    \/ \E i \in DOMAIN pipes, ok \in BOOLEAN : pi_remove_file(i, ok)
    \/ \E i \in DOMAIN pipes, ok \in BOOLEAN : pi_fail_send(i, ok)

Spec == Init /\ [][Next]_vars

\* The spawned task is polled again once its send_message has returned, with Ok or
\* with Err: the failure message of a run is not left pending for ever.
Fairness ==
    \A i \in 1..MaxUpdates : WF_vars(\E ok \in BOOLEAN : pi_fail_send(i, ok))

FairSpec == Spec /\ Fairness

(* Runs that start later in the life of the program.  Each chat is in one of *)
(* four situations: it has sent /startcollect and one photo message and is   *)
(* collecting, with no file name; the same after it had set the file name    *)
(* "n" with /filename and a text; the same with a text in place of the       *)
(* photo; or it has only sent /filename and its name is awaited.  The        *)
(* buffered messages were the updates 1 (chat 1) and 2 (chat 2), the texts   *)
(* of the names the updates -3 and -2, and no Stop has been sent yet.        *)
LateMessage(c, content) == Message(c, content)

LateNameId(c) == c - 4

LateSessions ==
    { [is_collecting |-> TRUE, is_set_file_name |-> FALSE, file_name |-> None, buffer |-> "photo"],
      [is_collecting |-> TRUE, is_set_file_name |-> FALSE, file_name |-> Some("n"), buffer |-> "photo"],
      [is_collecting |-> TRUE, is_set_file_name |-> FALSE, file_name |-> None, buffer |-> "text"],
      [is_collecting |-> FALSE, is_set_file_name |-> TRUE, file_name |-> None, buffer |-> "none"] }

InitLate ==
    /\ \E late \in [Chats -> LateSessions] :
          /\ state = [c \in Chats |->
                        [is_collecting |-> late[c].is_collecting,
                         is_set_file_name |-> late[c].is_set_file_name,
                         messages |-> IF late[c].is_collecting
                                        THEN <<LateMessage(c, late[c].buffer)>> ELSE <<>>,
                         file_name |-> late[c].file_name]]
          /\ ignored = {LateNameId(c) : c \in {k \in Chats : ~IsNone(late[k].file_name)}}
          /\ appended = [c \in Chats |-> IF late[c].is_collecting THEN <<c>> ELSE <<>>]
    /\ lock = None
    /\ handler = [c \in Chats |-> "idle"]
    /\ pipes = <<>>
    /\ dirs = <<>>
    /\ zips = <<>>
    /\ nextId = 3
    /\ now = 0
    /\ cleared = {}
    /\ faults = 0

LateSpec == InitLate /\ [][Next]_vars

-----------------------------------------------------------------------------
(* Vocabulary of the properties *)

\* the run has its batch: it found the session collecting and has left the lock
Took(p) == p.found = "yes" /\ p.pc \notin {"lock", "take"}

\* the run holds the lock between its flag flip and its take
MidTake(c) ==
    \E i \in DOMAIN pipes : pipes[i].chat = c /\ pipes[i].pc = "take"

\* ids of a batch, in batch order
IdSeq(msgs) == [k \in 1..Len(msgs) |-> msgs[k].id]

HasSent(p, kind) == \E n \in 1..Len(p.out) : p.out[n] = kind

\* a text that is empty once trimmed
Blank(str) == str \in {"", " "}

-----------------------------------------------------------------------------
(* C1: The batch a Stop takes from a collecting session is exactly the       *)
(* sequence of messages pushed since the last StartCollecting, in push       *)
(* order, as it was when the Stop got the lock; no message is in two         *)
(* batches, nor in a batch and in a session buffer at once.                  *)
C1_AtomicTake ==
    /\ \A i \in DOMAIN pipes :
          Took(pipes[i]) => IdSeq(pipes[i].messages) = pipes[i].seen
    /\ \A i, j \in DOMAIN pipes :
          i # j => Ids(pipes[i].messages) \cap Ids(pipes[j].messages) = {}
    /\ \A i \in DOMAIN pipes : \A c \in Chats :
          Ids(pipes[i].messages) \cap Ids(Sess(c).messages) = {}

\* a Stop has taken a batch of two messages
C1_Witness == \E i \in DOMAIN pipes : Took(pipes[i]) /\ Len(pipes[i].messages) >= 2

C3_FailFast ==
    \A i \in DOMAIN pipes :
        (\E j \in 1..Len(pipes[i].fetch) : pipes[i].fetch[j] = "panic")
            => /\ ~HasSent(pipes[i], "document")
               /\ pipes[i].pc = "done" => pipes[i].result = "err"

(* C4: Once staging has begun, the scratch directory and the archive file of *)
(* a run are gone when the run ends, on every exit path.                     *)
C4_Cleanup ==
    \A i \in DOMAIN pipes :
        (pipes[i].pc = "done" /\ ~IsNone(pipes[i].zip))
            => /\ i \notin DOMAIN dirs
               /\ Unwrap(pipes[i].zip) \notin DOMAIN zips

(* C5: A Stop that finds the session not collecting sends the "not           *)
(* collecting" notice and nothing else happens: no step of that run changes  *)
(* any session or the file system, and the run takes no batch.               *)
C5_StopWhenIdle ==
    [][\A i \in DOMAIN pipes :
          (pipes'[i] # pipes[i] /\ pipes'[i].found = "no")
              => /\ \A c \in Chats : Sess(c)' = Sess(c)
                 /\ dirs' = dirs /\ zips' = zips
                 /\ pipes'[i].pc \in {"notcollecting_send", "fail_send", "done"}
                 /\ pipes'[i].messages = <<>>
                 /\ pipes'[i].out \in {<<>>, <<"notcollecting">>, <<"failed">>}
                 /\ pipes[i].pc = "lock" => pipes'[i].pc = "notcollecting_send"]_vars

\* two Stops of one chat, whose session is not the default one, both got the notice out
C5_Witness ==
    \E i, j \in DOMAIN pipes :
        /\ i # j /\ pipes[i].chat = pipes[j].chat
        /\ pipes[i].pc = "done" /\ pipes[i].out = <<"notcollecting">>
        /\ pipes[j].pc = "done" /\ pipes[j].out = <<"notcollecting">>
        /\ Sess(pipes[i].chat).is_set_file_name

(* C6 as stated: no session is collecting and awaiting a file name at once.  *)
C6_Exclusive ==
    \A c \in Chats : ~(Sess(c).is_collecting /\ Sess(c).is_set_file_name)

(* C6 as amended: the two flags are independent. is_collecting changes only  *)
(* in StartCollecting and Stop, which leave is_set_file_name as it is;       *)
(* is_set_file_name changes only in SetFileNameRequested and                 *)
(* ReceiveFileName, which leave is_collecting as it is.                      *)
C6_Independent ==
    [][\A c \in Chats :
          /\ Sess(c)'.is_collecting # Sess(c).is_collecting
                => /\ Sess(c)'.is_set_file_name = Sess(c).is_set_file_name
                   /\ \/ handler[c] = "idle" /\ handler'[c] = "sc_send"
                      \/ \E i \in DOMAIN pipes :
                            pipes[i].chat = c /\ pipes[i].pc = "lock" /\ pipes'[i].pc = "take"
          /\ Sess(c)'.is_set_file_name # Sess(c).is_set_file_name
                => /\ Sess(c)'.is_collecting = Sess(c).is_collecting
                   /\ handler[c] \in {"fn_lock", "hm_ack_send"}
                   /\ handler'[c] = "idle"]_vars

\* a session that is collecting and awaiting a file name
C6_Witness ==
    \E c \in Chats : Sess(c).is_collecting /\ Sess(c).is_set_file_name

(* C7: A message received while awaiting a file name (and not collecting)    *)
(* is rejected with file_name and is_set_file_name unchanged when its text   *)
(* is empty after trimming; any other text becomes file_name, and            *)
(* is_set_file_name is cleared once the acknowledgment is sent.              *)
C7_ReceiveFileName ==
    [][\A c \in Chats :
          /\ \A content \in Contents :
                (handle_message(c, content) /\ ~Sess(c).is_collecting /\ Sess(c).is_set_file_name)
                    => LET text == TextOf(Message(nextId, content))
                       IN  IF Blank(text)
                             THEN /\ handler'[c] = "hm_reject_send"
                                  /\ Sess(c)' = Sess(c)
                             ELSE Sess(c)'.file_name = Some(text)
          /\ (handler[c] = "hm_ack_send" /\ handler'[c] = "idle" /\ faults' = faults)
                => ~Sess(c)'.is_set_file_name]_vars

(* C8: StartCollecting leaves the session collecting with an empty buffer,   *)
(* whatever it was before, and a message it dropped from the buffer is in no *)
(* batch and in no buffer afterwards.                                        *)
C8_Restart ==
    /\ \A c \in Chats :
          handler[c] = "sc_send" => Sess(c).is_collecting /\ Len(Sess(c).messages) = 0
    /\ \A i \in DOMAIN pipes : Ids(pipes[i].messages) \cap cleared = {}
    /\ \A c \in Chats : Ids(Sess(c).messages) \cap cleared = {}

\* a StartCollecting dropped a buffered message and a later Stop took its batch
C8_Witness ==
    /\ cleared # {}
    /\ \E i \in DOMAIN pipes : Took(pipes[i]) /\ \A id \in cleared : id < pipes[i].began

(* C9: The buffer of a session that is not collecting is empty (as seen by   *)
(* any task that holds the lock), and a message that arrived while the       *)
(* session was not collecting is in no batch and in no buffer.               *)
C9_IdleBufferEmpty ==
    /\ \A c \in Chats :
          (~Sess(c).is_collecting /\ ~MidTake(c)) => Sess(c).messages = <<>>
    /\ \A i \in DOMAIN pipes : Ids(pipes[i].messages) \cap ignored = {}
    /\ \A c \in Chats : Ids(Sess(c).messages) \cap ignored = {}

\* a message arrived while idle, and a later Stop took a batch that is not empty
C9_Witness ==
    \E i \in DOMAIN pipes :
        /\ Took(pipes[i])
        /\ pipes[i].messages # <<>>
        /\ \E id \in ignored : id < pipes[i].messages[1].id

(* C10: A run whose batch is empty or holds no message with a photo creates  *)
(* no scratch directory, starts no fetch and creates no archive; it ends     *)
(* with its notice sent and Ok, or, when a send fails, with that send's      *)
(* error reported like any other.                                            *)
C10_NoContent ==
    \A i \in DOMAIN pipes :
        (Took(pipes[i]) /\ \A k \in 1..Len(pipes[i].messages) : ~HasPhoto(pipes[i].messages[k]))
            => /\ i \notin DOMAIN dirs
               /\ IsNone(pipes[i].zip) /\ pipes[i].fetch = <<>> /\ pipes[i].photo_urls = <<>>
               /\ IsNone(pipes[i].doc)
               /\ pipes[i].pc \in {"empty_send", "processing_send", "resolve",
                                   "nophoto_send", "fail_send", "done"}
               /\ pipes[i].result = "ok"
                     => HasSent(pipes[i], IF pipes[i].messages = <<>> THEN "empty" ELSE "nophoto")
               /\ pipes[i].result = "err" => pipes[i].error = "send"

\* a Stop of a batch of text messages ended with the "no photo" notice
C10_Witness ==
    \E i \in DOMAIN pipes :
        /\ pipes[i].pc = "done" /\ pipes[i].result = "ok"
        /\ pipes[i].messages # <<>>
        /\ HasSent(pipes[i], "nophoto")

-----------------------------------------------------------------------------
(* The selection of the photo variant, on every list of variants.            *)
(* The run starts where chat 1 has sent /startcollect (update 1), one photo  *)
(* message (update 2) and /stopcollect (update 3), and the spawned task has  *)
(* taken the batch and sent its "processing" message; the variants of the    *)
(* photo are any list of one to MaxVariants sizes.                           *)

VariantLists ==
    UNION { [1..n -> Sizes \X Sizes] : n \in 1..MaxVariants }

\* the PhotoSize list of message id with these (width, height) pairs
Variants(id, sizes) ==
    [k \in 1..Len(sizes) |-> [width |-> sizes[k][1], height |-> sizes[k][2], file |-> <<id, k>>]]

InitSelect ==
    /\ \E sizes \in VariantLists :
          pipes = << [NewPipe(1) EXCEPT
                        !.pc = "resolve", !.began = 4, !.found = "yes", !.seen = <<2>>,
                        !.messages = << [id |-> 2, text |-> None,
                                         photo |-> Some(Variants(2, sizes))] >>,
                        !.out = <<"processing">>] >>
    /\ state = (1 :> UserState)
    /\ lock = None
    /\ handler = [c \in Chats |-> "idle"]
    /\ dirs = <<>>
    /\ zips = <<>>
    /\ nextId = 4
    /\ now = 0
    /\ appended = [c \in Chats |-> IF c = 1 THEN <<2>> ELSE <<>>]
    /\ cleared = {}
    /\ ignored = {}
    /\ faults = 0

NextSelect == \E i \in DOMAIN pipes, ok \in BOOLEAN : pi_resolve(i, ok)

SpecSelect == InitSelect /\ [][NextSelect]_vars

Area(v) == v.width * v.height

\* the position, among the variants of the k-th message of the batch, of the file the run resolved
PositionOf(p, k) ==
    LET photos == Unwrap(p.messages[k].photo)
    IN  CHOOSE n \in 1..Len(photos) : photos[n].file = p.photo_urls[k]

(* C11 as stated: the selected variant has maximal width * height and is the *)
(* first of the variants with that area.                                     *)
C11_FirstMaximal ==
    \A i \in DOMAIN pipes : \A k \in 1..Len(pipes[i].photo_urls) :
        LET photos == Unwrap(pipes[i].messages[k].photo)
            n == PositionOf(pipes[i], k)
        IN  \A j \in 1..Len(photos) :
                /\ Area(photos[j]) <= Area(photos[n])
                /\ j < n => Area(photos[j]) < Area(photos[n])

(* C11 as amended: the selected variant has maximal width * height and is    *)
(* the last of the variants with that area.                                  *)
C11_LastMaximal ==
    \A i \in DOMAIN pipes : \A k \in 1..Len(pipes[i].photo_urls) :
        LET photos == Unwrap(pipes[i].messages[k].photo)
            n == PositionOf(pipes[i], k)
        IN  \A j \in 1..Len(photos) :
                /\ Area(photos[j]) <= Area(photos[n])
                /\ j > n => Area(photos[j]) < Area(photos[n])

\* a photo whose largest area is shared by two variants has been resolved
C11_Witness ==
    \E i \in DOMAIN pipes :
        /\ Len(pipes[i].photo_urls) = 1
        /\ LET photos == Unwrap(pipes[i].messages[1].photo)
               n == PositionOf(pipes[i], 1)
           IN  \E j \in 1..Len(photos) : j # n /\ Area(photos[j]) = Area(photos[n])

-----------------------------------------------------------------------------

\* the photo-carrying messages of the batch, in batch order
PhotoMsgs(p) == SelectSeq(p.messages, HasPhoto)

\* every download of the run has been spawned and has written its file
AllFetched(p) ==
    /\ p.fetch # <<>>
    /\ \A j \in 1..Len(p.fetch) : p.fetch[j] = "ok"

(* C12: image_k.jpg of the scratch area holds a file of the k-th photo       *)
(* message of the batch whatever the order in which the downloads finish;    *)
(* when all N downloads succeeded the area holds exactly image_1 .. image_N, *)
(* and the archive create_zip then writes has exactly these entries.         *)
C12_IndexedEntries ==
    [][\A i \in DOMAIN pipes' :
          LET p == pipes'[i]
              N == Len(PhotoMsgs(p))
          IN  /\ i \in DOMAIN dirs' =>
                   /\ \A k \in DOMAIN dirs'[i] :
                         /\ k \in 1..N
                         /\ dirs'[i][k][1] = PhotoMsgs(p)[k].id
                   /\ AllFetched(p) => DOMAIN dirs'[i] = 1..N
              /\ (/\ i \in DOMAIN pipes
                  /\ pipes[i].pc = "fetch"
                  /\ p.pc = "ack_send"
                  /\ AllFetched(p)) =>
                   /\ Unwrap(p.zip) \in DOMAIN zips'
                   /\ zips'[Unwrap(p.zip)].finished
                   /\ zips'[Unwrap(p.zip)].entries = dirs'[i]
                   /\ DOMAIN zips'[Unwrap(p.zip)].entries = 1..N
      ]_vars

\* a batch of two photos has been fetched and archived
C12_Witness ==
    \E i \in DOMAIN pipes :
        /\ pipes[i].pc = "ack_send"
        /\ Len(PhotoMsgs(pipes[i])) = 2
        /\ AllFetched(pipes[i])
        /\ i \in DOMAIN dirs
        /\ DOMAIN dirs[i] = {1, 2}

-----------------------------------------------------------------------------

\* the count the acknowledgment cites: photo_urls.len()
AckCount(p) == Len(p.photo_urls)

\* kind a was sent before kind b in the run's record
SentBefore(p, a, b) ==
    \E m, n \in 1..Len(p.out) : m < n /\ p.out[m] = a /\ p.out[n] = b

(* C13: a run that has sent the archive document sent the acknowledgment     *)
(* before it, and the count of the acknowledgment is the number of entries   *)
(* of the archive it sent.                                                   *)
C13_AckMatchesArchive ==
    \A i \in DOMAIN pipes :
        HasSent(pipes[i], "document") =>
            /\ SentBefore(pipes[i], "ack", "document")
            /\ AckCount(pipes[i]) = Cardinality(DOMAIN Unwrap(pipes[i].doc).entries)

-----------------------------------------------------------------------------

\* the handler of chat c is waiting for a send_message to return
HandlerSending(c) == handler[c] \in {"hm_reject_send", "hm_ack_send", "sc_send", "fn_send"}

\* the run is waiting for a send to return
PipeSending(p) ==
    p.pc \in {"notcollecting_send", "empty_send", "processing_send", "nophoto_send",
              "ack_send", "doc_send", "fail_send"}

(* C14: no task waits for an outbound send while it holds the lock of the    *)
(* session store.                                                            *)
C14_NoSendUnderLock ==
    /\ \A c \in Chats : HandlerSending(c) => lock # Some(HandlerTask(c))
    /\ \A i \in DOMAIN pipes : PipeSending(pipes[i]) => lock # Some(PipeTask(i))

\* the steps of a run that come after the batch was moved out
AfterTake ==
    {"empty_send", "processing_send", "resolve", "nophoto_send", "stage", "fetch",
     "ack_send", "doc_send", "remove_dir", "remove_file"}

(* C15: a run that has moved the batch out does not hold the lock while it   *)
(* resolves, fetches, archives, delivers or cleans up.                       *)
C15_PipelineUnlocked ==
    \A i \in DOMAIN pipes :
        pipes[i].pc \in AfterTake => lock # Some(PipeTask(i))

\* while a run fetches, the /startcollect of its own chat has the lock
C15_Witness ==
    \E i \in DOMAIN pipes :
        /\ pipes[i].pc = "fetch"
        /\ handler[pipes[i].chat] = "sc_send"
        /\ lock = Some(HandlerTask(pipes[i].chat))

-----------------------------------------------------------------------------

\* process_inner of run i returns Err in this step
Fails(i) ==
    /\ i \in DOMAIN pipes
    /\ pipes[i].result # "err"
    /\ pipes'[i].result = "err"

\* process_inner of run i has returned Err
Failed(i) == IF i \in DOMAIN pipes THEN pipes[i].result = "err" ELSE FALSE

\* stop_collecting_and_process of the failed run i has sent its message and ended
Reported(i) ==
    IF i \in DOMAIN pipes THEN pipes[i].result = "err" /\ pipes[i].pc = "done" ELSE FALSE

(* C16: when process_inner returns an error the next thing the run does is   *)
(* to send the failure message to its own conversation, and it does send it: *)
(* the message is on the record unless that very send failed.  The failing   *)
(* step changes no session, no handler and no other run, and no step of a    *)
(* run changes the session of another conversation.                          *)
C16_ErrorsReported ==
    /\ [][\A i \in DOMAIN pipes :
            /\ Fails(i) =>
                 /\ pipes'[i].pc = "fail_send"
                 /\ state' = state
                 /\ handler' = handler
                 /\ \A k \in DOMAIN pipes : k # i => pipes'[k] = pipes[k]
            /\ (pipes[i].pc = "fail_send" /\ pipes'[i] # pipes[i]) =>
                 /\ pipes'[i].pc = "done"
                 /\ faults' = faults => pipes'[i].out = Append(pipes[i].out, "failed")
            /\ pipes'[i] # pipes[i] =>
                 \A c \in (DOMAIN state) \ {pipes[i].chat} :
                     c \in DOMAIN state' /\ state'[c] = state[c]
        ]_vars
    /\ \A i \in 1..MaxUpdates : Failed(i) ~> Reported(i)

\* a run whose archive could not be written has told its conversation, and the
\* other conversation is collecting
C16_Witness ==
    \E i \in DOMAIN pipes, c \in DOMAIN state :
        /\ pipes[i].pc = "done"
        /\ pipes[i].error = "zip"
        /\ HasSent(pipes[i], "failed")
        /\ c # pipes[i].chat
        /\ state[c].is_collecting

-----------------------------------------------------------------------------

\* run i moves the batch and the name out of the session in this step
Takes(i) ==
    /\ i \in DOMAIN pipes
    /\ pipes[i].pc = "take"
    /\ pipes'[i].pc # "take"

\* the name of the archive of a run that had this file name at its take
NamedAfter(p, file_name) ==
    /\ ~IsNone(p.zip)
    /\ IF IsNone(file_name)
         THEN /\ Unwrap(p.zip).base = "images"
              /\ \E minute \in Minutes : Unwrap(p.zip).stamp = Some(<<minute, p.chat>>)
         ELSE Unwrap(p.zip) = [base |-> Unwrap(file_name), stamp |-> None]

(* C17: the take of a Stop that found the session collecting hands the       *)
(* session's file name to the run and leaves the session without one, also   *)
(* when the batch is empty or has no photo; the archive of the run is named  *)
(* after that name when there was one and gets the synthesized name of the   *)
(* minute and the chat otherwise; and two Stops of a chat that both had a    *)
(* name are separated by a message that set it anew.                         *)
C17_NameOneShot ==
    [][\A i \in DOMAIN pipes' :
          LET p == pipes'[i]
          IN  /\ Takes(i) =>
                   /\ p.file_name = Sess(p.chat).file_name
                   /\ state'[p.chat].file_name = None
              /\ ~IsNone(p.zip) => NamedAfter(p, p.file_name)
              /\ \A k \in DOMAIN pipes' :
                    (/\ k < i
                     /\ pipes'[k].chat = p.chat
                     /\ ~IsNone(pipes'[k].file_name)
                     /\ ~IsNone(p.file_name)) =>
                       \E id \in ignored' : pipes'[k].began <= id /\ id < p.began
      ]_vars

\* a session that had the name "n" has none after its Stop, whose archive is n.zip
C17_Witness ==
    \E i \in DOMAIN pipes :
        /\ pipes[i].pc = "fetch"
        /\ pipes[i].zip = Some([base |-> "n", stamp |-> None])
        /\ state[pipes[i].chat].file_name = None
        /\ ~state[pipes[i].chat].is_collecting

-----------------------------------------------------------------------------

\* the handler of /startcollect of chat c changes the session in this step
Starts(c) == handler[c] = "idle" /\ handler'[c] = "sc_send"

(* C18: when the /startcollect of a chat changes the session, every          *)
(* /stopcollect of that chat handled before it has changed the session       *)
(* already: none of its tasks is still waiting for the lock.                 *)
C18_StopBeforeStart ==
    [][\A c \in Chats :
          Starts(c) =>
              \A i \in DOMAIN pipes : pipes[i].chat = c => pipes[i].pc # "lock"
      ]_vars

\* the files fetched for the batch of the run
FetchedFor(p) == { p.photo_urls[k] : k \in 1..Len(p.photo_urls) }

(* C19: the document a run has delivered holds only files fetched for the    *)
(* batch of that run.                                                        *)
C19_OwnFilesOnly ==
    \A i \in DOMAIN pipes :
        ~IsNone(pipes[i].doc) =>
            \A k \in DOMAIN Unwrap(pipes[i].doc).entries :
                Unwrap(pipes[i].doc).entries[k] \in FetchedFor(pipes[i])

(* C20: a message handled while the session is collecting is appended and    *)
(* changes neither the file name nor the flag of the file-name request, also *)
(* when that flag is set; the file name is only ever set to the text of a    *)
(* message handled while the flag is set and the session is not collecting;  *)
(* and the flag is never cleared while the session is collecting.            *)
C20_CollectingFirst ==
    [][\A c \in Chats :
          LET s == Sess(c)
              t == IF c \in DOMAIN state' THEN state'[c] ELSE UserState
          IN  /\ \A content \in Contents :
                    (handle_message(c, content) /\ s.is_collecting) =>
                        /\ t.messages = Append(s.messages, Message(nextId, content))
                        /\ t.file_name = s.file_name
                        /\ t.is_set_file_name = s.is_set_file_name
                        /\ t.is_collecting
              /\ (t.file_name # s.file_name /\ ~IsNone(t.file_name)) =>
                    /\ s.is_set_file_name
                    /\ ~s.is_collecting
                    /\ \E content \in Contents :
                          /\ handle_message(c, content)
                          /\ t.file_name = Some(TextOf(Message(nextId, content)))
              /\ (s.is_set_file_name /\ ~t.is_set_file_name) => ~s.is_collecting
      ]_vars

\* the last update was a text of a chat that is collecting and whose file name is
\* awaited: it is in the buffer, and there is still no file name
C20_Witness ==
    \E c \in DOMAIN state :
        /\ state[c].is_collecting
        /\ state[c].is_set_file_name
        /\ state[c].file_name = None
        /\ state[c].messages # <<>>
        /\ state[c].messages[Len(state[c].messages)] = Message(nextId - 1, "text")
        /\ handler[c] = "idle"

====
